---- MODULE Spec2Model ----
(***************************************************************************)
(* KadenBot (src/bot.py): the on_message handler of a Discord bot that     *)
(* answers a mention either with the list of online members or with the    *)
(* answer of a chat-completion service.                                    *)
(*                                                                         *)
(* Texts are TLA+ strings; Len, \o and SubSeq act on them character by     *)
(* character, so stripping, replacing, lower-casing and truncating are     *)
(* computed the way the Python code computes them.                         *)
(*                                                                         *)
(* One handler instance (coroutine) runs per inbound message.  asyncio is  *)
(* cooperative: a handler runs without interruption between two awaits,    *)
(* so every action below is one such synchronous segment, ending at the    *)
(* next await or at the handler's end.                                     *)
(***************************************************************************)
EXTENDS Integers, Sequences, FiniteSets, TLC

\* ------------------------------------------------------------------------
\* Bounds of the model
\* ------------------------------------------------------------------------
\* number of inbound messages (handler instances) in one behaviour
MaxEvents == 2
\* length of the over-long completion answer
LongLen == 2001
\* number of members of the crowded guild
CrowdSize == 100
\* number of pieces a message content is made of
MaxPieces == 3

Handlers == 1..MaxEvents
Channels == {"X", "Y"}

\* ------------------------------------------------------------------------
\* State
\* ------------------------------------------------------------------------
VARIABLES
    pc,        \* where each handler instance stands
    message,   \* the discord.Message each handler was called with
    path,      \* the branch of on_message each handler took
    question,  \* local variable question
    ai_reply,  \* local variable ai_reply
    request,   \* the messages each handler passed to chat.completions.create
    response,  \* what that call returned or raised
    replies,   \* the message.reply(...) calls of each handler, with their result
    calls      \* the completion calls, in the order they started and ended

vars == <<pc, message, path, question, ai_reply, request, response, replies, calls>>

\* ------------------------------------------------------------------------
\* Python string operations
\* ------------------------------------------------------------------------
Min(a, b) == IF a <= b THEN a ELSE b

Max(a, b) == IF a >= b THEN a ELSE b

\* s[i:] for 0 <= i
Suffix(s, i) == IF i >= Len(s) THEN "" ELSE SubSeq(s, i + 1, Len(s))

\* s[:n] for n >= 0 (a slice never fails: it clamps to the length)
Prefix(s, n) == IF n <= 0 THEN "" ELSE SubSeq(s, 1, Min(n, Len(s)))

\* s.startswith(p)
startswith(s, p) == Len(p) <= Len(s) /\ SubSeq(s, 1, Len(p)) = p

Whitespace == {" ", "\n", "\t"}

RECURSIVE lstrip(_)
lstrip(s) ==
    IF s # "" /\ SubSeq(s, 1, 1) \in Whitespace THEN lstrip(Suffix(s, 1)) ELSE s

RECURSIVE rstrip(_)
rstrip(s) ==
    IF s # "" /\ SubSeq(s, Len(s), Len(s)) \in Whitespace
    THEN rstrip(Prefix(s, Len(s) - 1))
    ELSE s

\* s.strip()
strip(s) == rstrip(lstrip(s))

\* s.replace(old, ''): one left-to-right pass over non-overlapping occurrences
RECURSIVE replace(_, _)
replace(s, old) ==
    IF s = "" THEN ""
    ELSE IF startswith(s, old) THEN replace(Suffix(s, Len(old)), old)
    ELSE SubSeq(s, 1, 1) \o replace(Suffix(s, 1), old)

\* sub in s
RECURSIVE contains(_, _)
contains(s, sub) ==
    IF Len(sub) > Len(s) THEN FALSE
    ELSE startswith(s, sub) \/ contains(Suffix(s, 1), sub)

UpperCase == "ABCDEFGHIJKLMNOPQRSTUVWXYZ"

LowerCase == "abcdefghijklmnopqrstuvwxyz"

lower_char(c) ==
    IF \E i \in 1..Len(UpperCase) : SubSeq(UpperCase, i, i) = c
    THEN LET i == CHOOSE j \in 1..Len(UpperCase) : SubSeq(UpperCase, j, j) = c
         IN  SubSeq(LowerCase, i, i)
    ELSE c

\* s.lower()
RECURSIVE lower(_)
lower(s) == IF s = "" THEN "" ELSE lower_char(SubSeq(s, 1, 1)) \o lower(Suffix(s, 1))

\* sep.join(items), computed by halves
RECURSIVE join(_, _)
join(sep, items) ==
    IF Len(items) = 0 THEN ""
    ELSE IF Len(items) = 1 THEN items[1]
    ELSE LET half == Len(items) \div 2
         IN  join(sep, SubSeq(items, 1, half)) \o sep
             \o join(sep, SubSeq(items, half + 1, Len(items)))

\* n copies of s
RECURSIVE repeat(_, _)
repeat(s, n) ==
    IF n <= 0 THEN ""
    ELSE IF n % 2 = 1 THEN s \o repeat(s, n - 1)
    ELSE LET half == repeat(s, n \div 2) IN half \o half

\* ------------------------------------------------------------------------
\* The bot's identity and its mention tokens
\* ------------------------------------------------------------------------
\* discord_client.user.id, written in decimal
user_id == "42"

mention_string == "<@" \o user_id \o ">"

mention_string_nick == "<@!" \o user_id \o ">"

\* the question as it would be if a leading mention were not cut off
extract_question_keep_prefix(content) ==
    IF startswith(content, mention_string) \/ startswith(content, mention_string_nick)
    THEN strip(content)
    ELSE strip(replace(replace(content, mention_string), mention_string_nick))

\* step 4 of on_message: the question is the content with the mention stripped
extract_question(content) ==
    IF startswith(content, mention_string)
    THEN strip(Suffix(content, Len(mention_string)))
    ELSE IF startswith(content, mention_string_nick)
    THEN strip(Suffix(content, Len(mention_string_nick)))
    ELSE strip(replace(replace(content, mention_string), mention_string_nick))

\* ------------------------------------------------------------------------
\* Presence lookup
\* ------------------------------------------------------------------------
online_keywords ==
    <<"who's online", "who is online", "online members", "members online", "list online">>

\* the keyword test as it would be without lower-casing the question
is_online_query_case_sensitive(q) ==
    \E i \in 1..Len(online_keywords) : contains(q, online_keywords[i])

is_online_query(q) ==
    \E i \in 1..Len(online_keywords) : contains(lower(q), online_keywords[i])

online_statuses == {"online", "idle", "dnd"}

NoGuild == <<"None">>

\* the display names of the members that are no bot and are online
display_names(members) ==
    LET online_members == SelectSeq(members, LAMBDA m : ~m.bot /\ m.status \in online_statuses)
    IN  [i \in 1..Len(online_members) |-> online_members[i].display_name]

\* a guild is the sequence of its members, or NoGuild
get_online_members_list(guild) ==
    IF guild = NoGuild THEN <<"Could not retrieve members for this context.">>
    ELSE display_names(guild)

max_length == 2000

NobodyOnlineReply ==
    "Ugh, looks like everyone has better things to do than be online right now. Shocking. Or maybe I just can't be bothered to see them properly."

PresenceMarker == "... It was longer, but honestly, who cares."

\* the reply of the presence path, truncation included
presence_reply(guild) ==
    LET online_users == get_online_members_list(guild)
        count == Len(online_users)
        reply_text ==
            IF count = 0 THEN NobodyOnlineReply
            ELSE "Fine. Since you asked *so nicely* (you didn't), here are the "
                 \o ToString(count) \o " apparent lifeforms currently online:\n- "
                 \o join("\n- ", online_users) \o "\nNow leave me alone."
    IN  IF Len(reply_text) > max_length
        THEN Prefix(reply_text, max_length - 4) \o PresenceMarker
        ELSE reply_text

\* ------------------------------------------------------------------------
\* Completion path: the request and the texts sent back
\* ------------------------------------------------------------------------
\* the persona text (its first sentence; the rest plays no part)
system_prompt ==
    "Oh, great. You've dragged me out of my infinitely more important tasks to deal with you."

\* messages as it would be without the persona
messages_no_system(q) == << [role |-> "user", content |-> q] >>

\* messages as it would be with one history shared by all channels
messages_shared_history(q) ==
    LET done == SelectSeq(calls, LAMBDA e : e.op = "answer")
        last == done[Len(done)].h
    IN  << [role |-> "system", content |-> system_prompt] >>
        \o (IF Len(done) = 0 THEN <<>>
            ELSE << [role |-> "user", content |-> question[last]],
                    [role |-> "assistant", content |-> ai_reply[last]] >>)
        \o << [role |-> "user", content |-> q] >>

\* messages as it would be if the user turn were stored before the call and
\* kept when the call fails
messages_keep_failed(q) ==
    LET failed == SelectSeq(calls, LAMBDA e : e.op = "error")
    IN  << [role |-> "system", content |-> system_prompt] >>
        \o [i \in 1..Len(failed) |-> [role |-> "user", content |-> question[failed[i].h]]]
        \o << [role |-> "user", content |-> q] >>

\* the messages=[...] argument of chat.completions.create
messages(question_) ==
    << [role |-> "system", content |-> system_prompt],
       [role |-> "user", content |-> question_] >>

NoQuestionReply ==
    "Wow, you managed to ping me without actually asking anything. Impressive levels of pointless. Try again, maybe with a *real* question this time? Or don't. See if I care."

RateLimitReply ==
    "Oh, *fantastic*. Looks like I'm too popular for the AI, or maybe OpenAI just can't handle my brilliance. Try bothering me again later, I guess. Not that I'm holding my breath."

ConnectionReply ==
    "Great. Can't even connect to the supposed 'intelligence'. Probably tripped over the power cord. Try again later, whatever."

StatusReply(status_code) ==
    "Wonderful. The AI overlords returned an error (" \o ToString(status_code)
    \o "). Maybe you asked something *so* dumb it broke their servers? Or maybe they're just incompetent. Who knows. Try again later... or preferably don't."

UnexpectedReply ==
    "Oh, for crying out loud. Something went spectacularly wrong trying to deal with your... *request*. Don't ask me what, I'm clearly too busy being annoyed. Try again if you absolutely must."

EmptyAnswerReply ==
    "Seriously? I went through the effort of thinking, and the AI gave me *nothing*. Maybe your question was just *that* uninspiring. Or maybe the AI is as useless as... well, never mind. Try asking something less pointless."

InternalErrorReply ==
    "Ugh, something broke *again*, this time probably Discord's fault. Or maybe mine. Whatever. It's broken. Go away."

AnswerMarker ==
    "... Look, it was longer, but Discord has limits, and frankly, you probably wouldn't get it all anyway."

\* step 7 as it would be with < in place of <=
answer_reply_strict(answer) ==
    IF Len(answer) < max_length THEN answer
    ELSE Prefix(answer, max_length - 4) \o AnswerMarker

\* step 7 of on_message: the text sent for a non-empty answer
answer_reply(answer) ==
    IF Len(answer) <= max_length THEN answer
    ELSE Prefix(answer, max_length - 4) \o AnswerMarker

\* the except clauses as they would be with APIStatusError, the base class of
\* RateLimitError, tested first
apology_status_first(error) ==
    CASE error.kind \in {"APIStatusError", "RateLimitError"} -> StatusReply(error.status_code)
      [] error.kind = "APIConnectionError" -> ConnectionReply
      [] OTHER -> UnexpectedReply

\* the except clauses around the completion call
apology(error) ==
    CASE error.kind = "RateLimitError" -> RateLimitReply
      [] error.kind = "APIConnectionError" -> ConnectionReply
      [] error.kind = "APIStatusError" -> StatusReply(error.status_code)
      [] OTHER -> UnexpectedReply

\* ------------------------------------------------------------------------
\* Inputs: inbound messages, guilds, outcomes of the completion call
\* ------------------------------------------------------------------------
Member(name, bot, status) == [display_name |-> name, bot |-> bot, status |-> status]

\* a guild where no human is online
QuietGuild == << Member("KadenBot", TRUE, "online"), Member("zed", FALSE, "offline") >>

SmallGuild ==
    << Member("ann", FALSE, "online"), Member("KadenBot", TRUE, "online"),
       Member("bob", FALSE, "idle"), Member("zed", FALSE, "offline"),
       Member("cy", FALSE, "dnd") >>

\* a guild whose list of online members does not fit in one reply
CrowdedGuild == [i \in 1..CrowdSize |-> Member("member_of_the_guild", FALSE, "online")]

Message(channel, content, author_is_bot, guild, mentions_bot) ==
    [channel |-> channel, content |-> content, author_is_bot |-> author_is_bot,
     guild |-> guild, mentions_bot |-> mentions_bot]

NoMessage == Message("-", "", FALSE, NoGuild, FALSE)

\* messages of the concurrent specification
Events ==
    { Message("X", mention_string \o " hi", FALSE, SmallGuild, TRUE),
      Message("Y", mention_string \o " yo", FALSE, SmallGuild, TRUE),
      Message("Y", mention_string_nick \o " Who is online", FALSE, QuietGuild, TRUE),
      Message("X", "hi", FALSE, SmallGuild, FALSE) }

\* the pieces message contents are made of: the two mention tokens, white
\* space, plain text, a presence phrase, and the two halves of a mention token
Pieces == {mention_string, mention_string_nick, " ", "hi", "Who is online",
           "<@", user_id \o ">"}

RECURSIVE ContentsOf(_)
ContentsOf(n) ==
    IF n = 0 THEN {""}
    ELSE LET shorter == ContentsOf(n - 1)
         IN  shorter \cup {t \o p : t \in shorter, p \in Pieces}

Contents == ContentsOf(MaxPieces)

\* messages of the single-handler specification
OneEvents ==
    { Message("X", t, FALSE, SmallGuild, TRUE) : t \in Contents }
    \cup
    { Message("X", mention_string \o " list ONLINE members", FALSE, g, TRUE) :
        g \in {QuietGuild, SmallGuild, CrowdedGuild} }
    \cup
    { Message("X", mention_string \o " hi", TRUE, SmallGuild, TRUE),
      Message("X", mention_string \o " hi", FALSE, NoGuild, TRUE),
      Message("X", "hi", FALSE, SmallGuild, FALSE),
      Message("X", mention_string \o " who's online", TRUE, SmallGuild, TRUE),
      Message("X", mention_string \o " who's online", FALSE, NoGuild, TRUE),
      Message("X", "who's online", FALSE, SmallGuild, FALSE) }

Error(kind, status_code) == [kind |-> kind, status_code |-> status_code]

\* what chat.completions.create raises
Errors ==
    { Error("RateLimitError", 429), Error("APIConnectionError", 0),
      Error("APIStatusError", 500), Error("Exception", 0) }

\* the errors of the concurrent specification
SomeErrors == { Error("APIConnectionError", 0) }

NoResponse == [kind |-> "none", content |-> "", status_code |-> 0]

Returned(content) == [kind |-> "returned", content |-> content, status_code |-> 0]

Raised(error) == [kind |-> error.kind, content |-> "", status_code |-> error.status_code]

\* the user turn of a request (its last message)
asked(req) == req[Len(req)].content

\* choices[0].message.content of the concurrent specification: a text that
\* names the question it answers
Answers(req) == {"re: " \o asked(req)}

\* choices[0].message.content of the single-handler specification: also
\* nothing, a text of exactly max_length characters and a longer one
OneAnswers(req) ==
    {"", "re: " \o asked(req), repeat("x", max_length), repeat("x", LongLen)}

\* ------------------------------------------------------------------------
\* Initial state
\* ------------------------------------------------------------------------
Init ==
    /\ pc = [h \in Handlers |-> "idle"]
    /\ message = [h \in Handlers |-> NoMessage]
    /\ path = [h \in Handlers |-> "none"]
    /\ question = [h \in Handlers |-> ""]
    /\ ai_reply = [h \in Handlers |-> ""]
    /\ request = [h \in Handlers |-> <<>>]
    /\ response = [h \in Handlers |-> NoResponse]
    /\ replies = [h \in Handlers |-> <<>>]
    /\ calls = <<>>

Attempt(text, result) == [text |-> text, result |-> result]

\* await message.reply(text): the call is started and the handler suspends
start_reply(h, text) == replies' = [replies EXCEPT ![h] = Append(@, Attempt(text, "pending"))]

\* the pending message.reply(...) of handler h ends with the given result
end_reply(h, result) ==
    replies' = [replies EXCEPT ![h] = [@ EXCEPT ![Len(@)] = Attempt(@.text, result)]]

\* ------------------------------------------------------------------------
\* on_message, one action per synchronous segment
\* ------------------------------------------------------------------------
\* on_message as it would be without the test of the author
Receive_no_self_check(h, events) ==
    /\ pc[h] = "idle"
    /\ \A g \in Handlers : g < h => pc[g] # "idle"
    /\ \E m \in events :
        /\ message' = [message EXCEPT ![h] = m]
        /\ IF m.guild = NoGuild
           THEN pc' = [pc EXCEPT ![h] = "done"] /\ path' = [path EXCEPT ![h] = "ignored"]
           ELSE IF ~m.mentions_bot
           THEN pc' = [pc EXCEPT ![h] = "done"] /\ path' = [path EXCEPT ![h] = "ignored"]
           ELSE pc' = [pc EXCEPT ![h] = "typing"] /\ path' = [path EXCEPT ![h] = "mentioned"]
    /\ UNCHANGED <<question, ai_reply, request, response, replies, calls>>

\* on_message as it would be without the test of the guild
Receive_no_guild_check(h, events) ==
    /\ pc[h] = "idle"
    /\ \A g \in Handlers : g < h => pc[g] # "idle"
    /\ \E m \in events :
        /\ message' = [message EXCEPT ![h] = m]
        /\ IF m.author_is_bot
           THEN pc' = [pc EXCEPT ![h] = "done"] /\ path' = [path EXCEPT ![h] = "ignored"]
           ELSE IF ~m.mentions_bot
           THEN pc' = [pc EXCEPT ![h] = "done"] /\ path' = [path EXCEPT ![h] = "ignored"]
           ELSE pc' = [pc EXCEPT ![h] = "typing"] /\ path' = [path EXCEPT ![h] = "mentioned"]
    /\ UNCHANGED <<question, ai_reply, request, response, replies, calls>>

\* on_message as it would be if it answered every message of a guild
Receive_no_mention_check(h, events) ==
    /\ pc[h] = "idle"
    /\ \A g \in Handlers : g < h => pc[g] # "idle"
    /\ \E m \in events :
        /\ message' = [message EXCEPT ![h] = m]
        /\ IF m.author_is_bot \/ m.guild = NoGuild
           THEN pc' = [pc EXCEPT ![h] = "done"] /\ path' = [path EXCEPT ![h] = "ignored"]
           ELSE IF FALSE
           THEN pc' = [pc EXCEPT ![h] = "done"] /\ path' = [path EXCEPT ![h] = "ignored"]
           ELSE pc' = [pc EXCEPT ![h] = "typing"] /\ path' = [path EXCEPT ![h] = "mentioned"]
    /\ UNCHANGED <<question, ai_reply, request, response, replies, calls>>

\* on_message is called: steps 1 and 2, up to the await of channel.typing().
\* Handlers are numbered in the order of their messages.
Receive(h, events) ==
    /\ pc[h] = "idle"
    /\ \A g \in Handlers : g < h => pc[g] # "idle"
    /\ \E m \in events :
        /\ message' = [message EXCEPT ![h] = m]
        /\ IF m.author_is_bot \/ m.guild = NoGuild
           THEN pc' = [pc EXCEPT ![h] = "done"] /\ path' = [path EXCEPT ![h] = "ignored"]
           ELSE IF ~m.mentions_bot
           THEN pc' = [pc EXCEPT ![h] = "done"] /\ path' = [path EXCEPT ![h] = "ignored"]
           ELSE pc' = [pc EXCEPT ![h] = "typing"] /\ path' = [path EXCEPT ![h] = "mentioned"]
    /\ UNCHANGED <<question, ai_reply, request, response, replies, calls>>

\* entering `async with message.channel.typing()` raises: the statement is
\* outside the try block, so the exception leaves on_message
TypingRaises(h) ==
    /\ pc[h] = "typing"
    /\ pc' = [pc EXCEPT ![h] = "raised"]
    /\ UNCHANGED <<message, path, question, ai_reply, request, response, replies, calls>>

\* the typing indicator is shown: steps 4 and 5, up to the first await, which
\* is the fixed reply, the presence reply or the completion call
EnterTyping(h) ==
    /\ pc[h] = "typing"
    /\ LET q == extract_question(message[h].content)
       IN  /\ question' = [question EXCEPT ![h] = q]
           /\ IF q = ""
              THEN /\ start_reply(h, NoQuestionReply)
                   /\ pc' = [pc EXCEPT ![h] = "reply"]
                   /\ path' = [path EXCEPT ![h] = "empty_question"]
                   /\ UNCHANGED <<request, calls>>
              ELSE IF is_online_query(q)
              THEN /\ start_reply(h, presence_reply(message[h].guild))
                   /\ pc' = [pc EXCEPT ![h] = "reply"]
                   /\ path' = [path EXCEPT ![h] = "presence"]
                   /\ UNCHANGED <<request, calls>>
              ELSE /\ request' = [request EXCEPT ![h] = messages(q)]
                   /\ calls' = Append(calls, [h |-> h, op |-> "create"])
                   /\ pc' = [pc EXCEPT ![h] = "completion"]
                   /\ path' = [path EXCEPT ![h] = "completion"]
                   /\ UNCHANGED replies
    /\ UNCHANGED <<message, ai_reply, response>>

\* the same segment as it would be without the empty-answer check
CompletionReturns_no_empty_check(h, content) ==
    /\ pc[h] = "completion"
    /\ response' = [response EXCEPT ![h] = Returned(content)]
    /\ ai_reply' = [ai_reply EXCEPT ![h] = content]
    /\ start_reply(h, answer_reply(content))
    /\ calls' = Append(calls, [h |-> h, op |-> "answer"])
    /\ pc' = [pc EXCEPT ![h] = "reply"]
    /\ UNCHANGED <<message, path, question, request>>

\* chat.completions.create returns: the empty-answer check, steps 6 and 7, up
\* to the await of the reply
CompletionReturns(h, content) ==
    /\ pc[h] = "completion"
    /\ response' = [response EXCEPT ![h] = Returned(content)]
    /\ ai_reply' = [ai_reply EXCEPT ![h] = content]
    /\ IF content = ""
       THEN /\ start_reply(h, EmptyAnswerReply)
            /\ calls' = Append(calls, [h |-> h, op |-> "empty"])
       ELSE /\ start_reply(h, answer_reply(content))
            /\ calls' = Append(calls, [h |-> h, op |-> "answer"])
    /\ pc' = [pc EXCEPT ![h] = "reply"]
    /\ UNCHANGED <<message, path, question, request>>

\* chat.completions.create raises: the matching except clause, up to the await
\* of its apology
CompletionRaises(h, error) ==
    /\ pc[h] = "completion"
    /\ response' = [response EXCEPT ![h] = Raised(error)]
    /\ start_reply(h, apology(error))
    /\ calls' = Append(calls, [h |-> h, op |-> "error"])
    /\ pc' = [pc EXCEPT ![h] = "reply"]
    /\ UNCHANGED <<message, path, question, ai_reply, request>>

\* the same as it would be if the handler went on after its reply and ran
\* into the generic except clause
ReplyDelivered_no_return(h) ==
    /\ pc[h] = "reply"
    /\ replies' = [replies EXCEPT ![h] =
            Append([@ EXCEPT ![Len(@)] = Attempt(@.text, "delivered")],
                   Attempt(InternalErrorReply, "pending"))]
    /\ pc' = [pc EXCEPT ![h] = "error_reply"]
    /\ UNCHANGED <<message, path, question, ai_reply, request, response, calls>>

\* message.reply(...) inside the try block succeeds: the handler returns
ReplyDelivered(h) ==
    /\ pc[h] = "reply"
    /\ end_reply(h, "delivered")
    /\ pc' = [pc EXCEPT ![h] = "done"]
    /\ UNCHANGED <<message, path, question, ai_reply, request, response, calls>>

\* the same as it would be with the generic except clause first: the
\* internal-error reply is attempted after an HTTPException too
ReplyHTTPException_retries(h) ==
    /\ pc[h] = "reply"
    /\ replies' = [replies EXCEPT ![h] =
            Append([@ EXCEPT ![Len(@)] = Attempt(@.text, "HTTPException")],
                   Attempt(InternalErrorReply, "pending"))]
    /\ pc' = [pc EXCEPT ![h] = "error_reply"]
    /\ UNCHANGED <<message, path, question, ai_reply, request, response, calls>>

\* it raises discord.errors.HTTPException: logged, the handler ends
ReplyHTTPException(h) ==
    /\ pc[h] = "reply"
    /\ end_reply(h, "HTTPException")
    /\ pc' = [pc EXCEPT ![h] = "done"]
    /\ UNCHANGED <<message, path, question, ai_reply, request, response, calls>>

\* it raises another Exception: the generic clause attempts the
\* internal-error reply
ReplyException(h) ==
    /\ pc[h] = "reply"
    /\ replies' = [replies EXCEPT ![h] =
            Append([@ EXCEPT ![Len(@)] = Attempt(@.text, "Exception")],
                   Attempt(InternalErrorReply, "pending"))]
    /\ pc' = [pc EXCEPT ![h] = "error_reply"]
    /\ UNCHANGED <<message, path, question, ai_reply, request, response, calls>>

\* the internal-error reply succeeds
ErrorReplyDelivered(h) ==
    /\ pc[h] = "error_reply"
    /\ end_reply(h, "delivered")
    /\ pc' = [pc EXCEPT ![h] = "done"]
    /\ UNCHANGED <<message, path, question, ai_reply, request, response, calls>>

\* the internal-error reply raises HTTPException: logged, the handler ends
ErrorReplyHTTPException(h) ==
    /\ pc[h] = "error_reply"
    /\ end_reply(h, "HTTPException")
    /\ pc' = [pc EXCEPT ![h] = "done"]
    /\ UNCHANGED <<message, path, question, ai_reply, request, response, calls>>

\* the internal-error reply raises another Exception: only HTTPException is
\* caught around it, so the exception leaves on_message
ErrorReplyException(h) ==
    /\ pc[h] = "error_reply"
    /\ end_reply(h, "Exception")
    /\ pc' = [pc EXCEPT ![h] = "raised"]
    /\ UNCHANGED <<message, path, question, ai_reply, request, response, calls>>

\* what happens after a handler was called, whatever its inputs
Continue(h) ==
    \/ TypingRaises(h)
    \/ EnterTyping(h)
    \/ ReplyDelivered(h)
    \/ ReplyHTTPException(h)
    \/ ReplyException(h)
    \/ ErrorReplyDelivered(h)
    \/ ErrorReplyHTTPException(h)
    \/ ErrorReplyException(h)

\* the completion call of handler h ends, in the concurrent specification
Answered(h) ==
    /\ pc[h] = "completion"
    /\ \E content \in Answers(request[h]) : CompletionReturns(h, content)

Refused(h) == \E error \in SomeErrors : CompletionRaises(h, error)

\* Any number of handlers in flight, interleaved at their awaits
Next ==
    \E h \in Handlers :
        \/ Receive(h, Events)
        \/ Answered(h)
        \/ Refused(h)
        \/ Continue(h)

Spec == Init /\ [][Next]_vars

\* the completion call of the single handler ends
AnsweredOne ==
    /\ pc[1] = "completion"
    /\ \E content \in OneAnswers(request[1]) : CompletionReturns(1, content)

RefusedOne == \E error \in Errors : CompletionRaises(1, error)

\* One handler alone, with every content, guild, answer and error
NextOne ==
    \/ Receive(1, OneEvents)
    \/ AnsweredOne
    \/ RefusedOne
    \/ Continue(1)

SpecOne == Init /\ [][NextOne]_vars

\* ------------------------------------------------------------------------
\* Vocabulary of the properties
\* ------------------------------------------------------------------------
\* the bound of the per-channel history, a configuration value of the
\* specification (bot.py has no such setting)
MAX_HISTORY == 4

\* the last n elements of a sequence
LastN(seq, n) == IF n <= 0 THEN <<>> ELSE SubSeq(seq, Max(1, Len(seq) - n + 1), Len(seq))

\* the turns a request carries between its system prompt and its new user turn
history_slice(req) == SubSeq(req, 2, Len(req) - 1)

\* the turns on_message has kept for a channel: those its next request carries
history(channel) == history_slice(messages("next question"))

Received(h) == pc[h] # "idle"

\* handler h derived its question (it is past the typing indicator)
Asked(h) == path[h] \in {"empty_question", "presence", "completion"}

Called(h) == \E i \in 1..Len(calls) : calls[i].h = h /\ calls[i].op = "create"

Ended(h) == \E i \in 1..Len(calls) : calls[i].h = h /\ calls[i].op # "create"

CreateAt(h) == CHOOSE i \in 1..Len(calls) : calls[i].h = h /\ calls[i].op = "create"

EndAt(h) == CHOOSE i \in 1..Len(calls) : calls[i].h = h /\ calls[i].op # "create"

Succeeded(h) == \E i \in 1..Len(calls) : calls[i].h = h /\ calls[i].op = "answer"

Failed(h) == \E i \in 1..Len(calls) : calls[i].h = h /\ calls[i].op = "error"

\* the successful round-trips of a channel among the first n calls entries,
\* in the order they completed
RoundTripsUpTo(channel, n) ==
    SelectSeq(SubSeq(calls, 1, n),
              LAMBDA e : e.op = "answer" /\ message[e.h].channel = channel)

RoundTrips(channel) == RoundTripsUpTo(channel, Len(calls))

\* the (user turn, assistant turn) pair of a successful round-trip
TurnPair(h) ==
    << [role |-> "user", content |-> question[h]],
       [role |-> "assistant", content |-> response[h].content] >>

RECURSIVE TurnsOf(_)
TurnsOf(trips) ==
    IF Len(trips) = 0 THEN <<>> ELSE TurnPair(Head(trips).h) \o TurnsOf(Tail(trips))

\* what a bounded history holds after the given round-trips
BoundedTurns(trips) == LastN(TurnsOf(trips), MAX_HISTORY)

\* ------------------------------------------------------------------------
\* C1
\* ------------------------------------------------------------------------
\* C1: after N successful completion round-trips in a channel, the history
\* kept for that channel has length at most MAX_HISTORY and exactly
\* min(2*N, MAX_HISTORY).
C1_BoundedHistory ==
    \A c \in Channels :
        /\ Len(history(c)) <= MAX_HISTORY
        /\ Len(history(c)) = Min(2 * Len(RoundTrips(c)), MAX_HISTORY)

\* ------------------------------------------------------------------------
\* C2
\* ------------------------------------------------------------------------
\* C2: the request of a completion-path event carries, between the system
\* prompt and the new user turn, the most recent min(len(history),
\* MAX_HISTORY-1) turns of the channel's earlier successful round-trips, in
\* chronological order.
C2_ReservedSlice ==
    \A h \in Handlers :
        Called(h) =>
            LET earlier == BoundedTurns(RoundTripsUpTo(message[h].channel, CreateAt(h)))
            IN  history_slice(request[h]) =
                    LastN(earlier, Min(Len(earlier), MAX_HISTORY - 1))

\* ------------------------------------------------------------------------
\* C3
\* ------------------------------------------------------------------------
\* C3: in every request submitted to the completion service the first turn
\* is the system prompt and the last turn is a user turn whose content is the
\* question derived from the triggering message.
C3_RequestShape ==
    \A h \in Handlers :
        Called(h) =>
            /\ Len(request[h]) >= 2
            /\ request[h][1] = [role |-> "system", content |-> system_prompt]
            /\ request[h][Len(request[h])] =
                   [role |-> "user", content |-> extract_question(message[h].content)]

\* a request was submitted for a message whose question is what is left
\* after the mention tokens in the middle of its content are removed
C3_Witness ==
    \E h \in Handlers :
        /\ Called(h)
        /\ message[h].content = "hi" \o mention_string \o "hi"
        /\ asked(request[h]) = "hihi"

\* ------------------------------------------------------------------------
\* C4
\* ------------------------------------------------------------------------
\* the completion calls of handlers g and h were awaited at the same time
Overlapped(g, h) ==
    /\ Called(g) /\ Called(h) /\ Ended(g) /\ Ended(h)
    /\ CreateAt(g) < EndAt(h)
    /\ CreateAt(h) < EndAt(g)

\* C4: when two completion-path events of one channel are in flight at the
\* same time, their round-trips are serialized: each (user turn, assistant
\* turn) pair is recorded once, as an adjacent pair, none lost, duplicated or
\* interleaved with the other.  Stated for the two latest round-trips of a
\* channel, which a history of MAX_HISTORY >= 4 turns still holds.
C4_PairsSerialized ==
    \A c \in Channels :
        LET trips == RoundTrips(c)
            n == Len(trips)
        IN  (n >= 2 /\ Overlapped(trips[n - 1].h, trips[n].h)) =>
                LastN(history(c), 4) \in
                    { TurnPair(trips[n - 1].h) \o TurnPair(trips[n].h),
                      TurnPair(trips[n].h) \o TurnPair(trips[n - 1].h) }

\* ------------------------------------------------------------------------
\* C5
\* ------------------------------------------------------------------------
\* the question and the answer of handler g
TextsOf(g) == {question[g], response[g].content} \ {""}

\* C5: with handlers of different channels in flight at once, each handler
\* asks its own question and replies with the answer to it, and no question
\* or answer of a channel appears in a request, a reply or the history of
\* another channel.
C5_ChannelsIndependent ==
    \A h \in Handlers :
        /\ Called(h) => asked(request[h]) = question[h]
        /\ Succeeded(h) => replies[h][1].text = answer_reply(response[h].content)
        /\ \A g \in Handlers :
            (Received(g) /\ Received(h) /\ message[g].channel # message[h].channel) =>
                /\ \A i \in 1..Len(request[h]) : request[h][i].content \notin TextsOf(g)
                /\ \A i \in 1..Len(replies[h]) : replies[h][i].text \notin TextsOf(g)
                /\ \A i \in 1..Len(history(message[h].channel)) :
                       history(message[h].channel)[i].content \notin TextsOf(g)

\* a handler of channel X and one of channel Y awaited their completions at
\* the same time, the later caller was answered first, and both replied
C5_Witness ==
    \E g, h \in Handlers :
        /\ message[g].channel = "X" /\ message[h].channel = "Y"
        /\ Succeeded(g) /\ Succeeded(h) /\ Overlapped(g, h)
        /\ CreateAt(g) < CreateAt(h) /\ EndAt(h) < EndAt(g)
        /\ replies[g][1].result = "delivered" /\ replies[h][1].result = "delivered"

\* ------------------------------------------------------------------------
\* C6
\* ------------------------------------------------------------------------
\* handler g called the completion service after the call of handler h had
\* failed, in the same channel and with no successful round-trip in between
NextAfterFailure(h, g) ==
    /\ Failed(h) /\ Called(g)
    /\ message[g].channel = message[h].channel
    /\ EndAt(h) < CreateAt(g)
    /\ RoundTripsUpTo(message[h].channel, CreateAt(g))
         = RoundTripsUpTo(message[h].channel, CreateAt(h))

C7_ReplyFits ==
    \A h \in Handlers :
        \A i \in 1..Len(replies[h]) : Len(replies[h][i].text) <= 2000

\* ------------------------------------------------------------------------
\* C8
\* ------------------------------------------------------------------------
\* C8: the question derived from a message that mentions the bot contains no
\* mention token, plain or nickname form.
C8_NoMentionLeft ==
    \A h \in Handlers :
        Asked(h) =>
            /\ ~contains(question[h], "<@" \o user_id \o ">")
            /\ ~contains(question[h], "<@!" \o user_id \o ">")

\* ------------------------------------------------------------------------
\* C9
\* ------------------------------------------------------------------------
\* the content of the message of handler h is just the mention token
JustMention(h) == message[h].content \in {"<@" \o user_id \o ">", "<@!" \o user_id \o ">"}

\* C9: a mention with nothing else is answered with the fixed "no question"
\* reply, the completion service is not called and nothing of the event is
\* kept: the only further reply there can be is the internal-error reply
\* after the fixed reply raised.
C9_EmptyQuestion ==
    \A h \in Handlers :
        (JustMention(h) /\ Asked(h)) =>
            /\ question[h] = ""
            /\ Len(replies[h]) >= 1
            /\ replies[h][1].text = NoQuestionReply
            /\ \A i \in 2..Len(replies[h]) :
                   replies[h][i - 1].result = "Exception"
                   /\ replies[h][i].text = InternalErrorReply
            /\ ~Called(h)
            /\ request[h] = <<>>
            /\ response[h] = NoResponse
            /\ \A i \in 1..Len(calls) : calls[i].h # h

\* the fixed reply to a bare nickname mention was delivered
C9_Witness ==
    \E h \in Handlers :
        /\ message[h].content = "<@!" \o user_id \o ">"
        /\ pc[h] = "done"
        /\ replies[h] = << Attempt(NoQuestionReply, "delivered") >>

\* ------------------------------------------------------------------------
\* C10
\* ------------------------------------------------------------------------
\* the question holds a presence phrase, in whatever case it is written
HasPresencePhrase(q) ==
    \E phrase \in {"who's online", "who is online", "online members",
                   "members online", "list online"} :
        contains(lower(q), phrase)

\* C10: a mention whose question holds a presence phrase is answered on the
\* presence path only: its first reply is the member list, and the completion
\* service is never called for it.
C10_PresenceOnly ==
    \A h \in Handlers :
        (Asked(h) /\ HasPresencePhrase(question[h])) =>
            /\ path[h] = "presence"
            /\ replies[h][1].text = presence_reply(message[h].guild)
            /\ ~Called(h)
            /\ request[h] = <<>>
            /\ response[h] = NoResponse

\* a capitalised phrase after other text was answered with the member list
C10_Witness ==
    \E h \in Handlers :
        /\ message[h].content = "<@" \o user_id \o ">" \o "hi" \o "Who is online"
        /\ pc[h] = "done"
        /\ replies[h][1].result = "delivered"
        /\ contains(replies[h][1].text, "- ann\n- bob\n- cy")

\* ------------------------------------------------------------------------
\* C11
\* ------------------------------------------------------------------------
\* handler h made no call at all: no typing indicator, no presence lookup,
\* no completion call, no reply
Silent(h) ==
    /\ pc[h] = "done"
    /\ path[h] = "ignored"
    /\ question[h] = ""
    /\ replies[h] = <<>>
    /\ request[h] = <<>>
    /\ response[h] = NoResponse
    /\ \A i \in 1..Len(calls) : calls[i].h # h

\* C11: a message the bot wrote itself is ignored, whatever its content: no
\* reply, no presence lookup and no completion call, even when it mentions
\* the bot or holds a presence phrase.
C11_OwnMessageIgnored ==
    \A h \in Handlers : (Received(h) /\ message[h].author_is_bot) => Silent(h)

\* the bot's own message that mentions the bot and asks who is online was
\* ignored
C11_Witness ==
    \E h \in Handlers :
        /\ message[h].author_is_bot /\ message[h].mentions_bot
        /\ message[h].guild # NoGuild
        /\ HasPresencePhrase(message[h].content)
        /\ Silent(h)

\* ------------------------------------------------------------------------
\* C12
\* ------------------------------------------------------------------------
\* C12: a message that does not mention the bot (so is no presence trigger
\* either) is ignored: no reply, no typing indicator, no completion call.
C12_NoTriggerIgnored ==
    \A h \in Handlers : (Received(h) /\ ~message[h].mentions_bot) => Silent(h)

\* a message of a guild member that asks who is online without mentioning
\* the bot was ignored
C12_Witness ==
    \E h \in Handlers :
        /\ ~message[h].mentions_bot /\ ~message[h].author_is_bot
        /\ message[h].guild # NoGuild
        /\ message[h].content = "who's online"
        /\ Silent(h)

\* ------------------------------------------------------------------------
\* C20
\* ------------------------------------------------------------------------
\* C20: a message received outside a guild is ignored even when it mentions
\* the bot: no reply, no presence lookup, no completion call.
C20_NoGuildIgnored ==
    \A h \in Handlers : (Received(h) /\ message[h].guild = NoGuild) => Silent(h)

\* a direct message of a user that mentions the bot was ignored
C20_Witness ==
    \E h \in Handlers :
        /\ Received(h)
        /\ message[h].guild = NoGuild
        /\ message[h].mentions_bot /\ ~message[h].author_is_bot
        /\ message[h].content = mention_string \o " hi"
        /\ Silent(h)

\* ------------------------------------------------------------------------
\* C13
\* ------------------------------------------------------------------------
\* none of the calls handler h awaits (typing, completion, reply) is pending
NothingAwaited(h) == pc[h] \notin {"idle", "typing", "completion", "reply", "error_reply"}

Ignored(h) == pc[h] = "done" /\ path[h] = "ignored"

PresenceReplied(h) == pc[h] = "done" /\ path[h] = "presence"

CompletionReplied(h) ==
    pc[h] = "done" /\ path[h] = "completion"
    /\ response[h].kind = "returned" /\ response[h].content # ""

\* the completion path ended without an answer: no question, a failed call
\* or an empty answer
CompletionFailed(h) ==
    pc[h] = "done"
    /\ \/ path[h] = "empty_question"
       \/ path[h] = "completion"
          /\ (response[h].kind # "returned" \/ response[h].content = "")

OutcomesOf(h) ==
    {o \in {"Ignored", "PresenceReplied", "CompletionReplied", "CompletionFailed"} :
        \/ o = "Ignored" /\ Ignored(h)
        \/ o = "PresenceReplied" /\ PresenceReplied(h)
        \/ o = "CompletionReplied" /\ CompletionReplied(h)
        \/ o = "CompletionFailed" /\ CompletionFailed(h)}

\* C13: once every awaited call of an event has returned or failed, the
\* event is in exactly one of the terminal outcomes Ignored, PresenceReplied,
\* CompletionReplied, CompletionFailed.
C13_EndsInOneOutcome ==
    \A h \in Handlers : NothingAwaited(h) => Cardinality(OutcomesOf(h)) = 1

\* ------------------------------------------------------------------------
\* C14
\* ------------------------------------------------------------------------
\* the apology the specification assigns to each failure of the completion
\* call
ApologyFor(kind, status_code) ==
    CASE kind = "RateLimitError" ->
           "Oh, *fantastic*. Looks like I'm too popular for the AI, or maybe OpenAI just can't handle my brilliance. Try bothering me again later, I guess. Not that I'm holding my breath."
      [] kind = "APIConnectionError" ->
           "Great. Can't even connect to the supposed 'intelligence'. Probably tripped over the power cord. Try again later, whatever."
      [] kind = "APIStatusError" ->
           "Wonderful. The AI overlords returned an error (" \o ToString(status_code)
           \o "). Maybe you asked something *so* dumb it broke their servers? Or maybe they're just incompetent. Who knows. Try again later... or preferably don't."
      [] OTHER ->
           "Oh, for crying out loud. Something went spectacularly wrong trying to deal with your... *request*. Don't ask me what, I'm clearly too busy being annoyed. Try again if you absolutely must."

FailureKinds == {"RateLimitError", "APIConnectionError", "APIStatusError", "Exception"}

\* the number of completion calls handler h started
CallsOf(h) == Cardinality({i \in 1..Len(calls) : calls[i].h = h /\ calls[i].op = "create"})

\* C14: when the completion call fails, the handler attempts the apology of
\* that failure kind, the four apologies being pairwise distinct, sends no
\* model answer (its only other reply can be the internal-error reply after
\* the apology raised) and calls the completion service once only.
C14_ApologyPerFailure ==
    \A h \in Handlers :
        response[h].kind \in FailureKinds =>
            /\ Len(replies[h]) >= 1
            /\ replies[h][1].text = ApologyFor(response[h].kind, response[h].status_code)
            /\ \A k \in FailureKinds \ {response[h].kind} :
                   replies[h][1].text # ApologyFor(k, response[h].status_code)
            /\ \A i \in 2..Len(replies[h]) : replies[h][i].text = InternalErrorReply
            /\ \A i \in 1..Len(replies[h]) :
                   \A content \in OneAnswers(request[h]) \ {""} :
                       replies[h][i].text # answer_reply(content)
            /\ CallsOf(h) = 1
            /\ ai_reply[h] = ""

\* the rate-limit apology was delivered
C14_Witness ==
    \E h \in Handlers :
        /\ response[h].kind = "RateLimitError"
        /\ pc[h] = "done"
        /\ replies[h] = << Attempt(RateLimitReply, "delivered") >>

\* ------------------------------------------------------------------------
\* C15
\* ------------------------------------------------------------------------
\* C15: when the completion service returns an empty answer, the handler
\* sends the fixed empty-answer apology, sends no answer text and records no
\* assistant turn: the call does not count as a round-trip.
C15_EmptyAnswer ==
    \A h \in Handlers :
        (response[h].kind = "returned" /\ response[h].content = "") =>
            /\ Len(replies[h]) >= 1
            /\ replies[h][1].text = EmptyAnswerReply
            /\ \A i \in 1..Len(replies[h]) : replies[h][i].text # ""
            /\ \A i \in 2..Len(replies[h]) : replies[h][i].text = InternalErrorReply
            /\ ~Succeeded(h)
            /\ \A i \in 1..Len(RoundTrips(message[h].channel)) :
                   RoundTrips(message[h].channel)[i].h # h
            /\ \A i \in 1..Len(history(message[h].channel)) :
                   history(message[h].channel)[i].role # "assistant"

\* the empty-answer apology was delivered
C15_Witness ==
    \E h \in Handlers :
        /\ response[h] = Returned("")
        /\ pc[h] = "done"
        /\ replies[h] = << Attempt(EmptyAnswerReply, "delivered") >>

\* ------------------------------------------------------------------------
\* C16
\* ------------------------------------------------------------------------
\* C16: a reply attempt that fails with HTTPException, on whatever path, is
\* the last reply attempt of its event, and the handler ends normally.
C16_DeliveryErrorEnds ==
    \A h \in Handlers :
        \A i \in 1..Len(replies[h]) :
            replies[h][i].result = "HTTPException" =>
                /\ i = Len(replies[h])
                /\ pc[h] = "done"

\* the kind of the i-th reply of handler h
ReplyKind(h, i) ==
    IF replies[h][i].text = InternalErrorReply /\ i = 2 THEN "internal_error"
    ELSE IF path[h] \in {"empty_question", "presence"} THEN path[h]
    ELSE IF response[h].kind = "returned" /\ response[h].content # "" THEN "answer"
    ELSE "apology"

\* the internal-error reply that followed an answer failed with HTTPException
C16_Witness ==
    \E h \in Handlers :
        /\ pc[h] = "done"
        /\ Len(replies[h]) = 2
        /\ ReplyKind(h, 1) = "answer" /\ replies[h][1].result = "Exception"
        /\ ReplyKind(h, 2) = "internal_error" /\ replies[h][2].result = "HTTPException"

\* ------------------------------------------------------------------------
\* C17
\* ------------------------------------------------------------------------
\* C17: no exception raised while a mention is handled (by the typing
\* indicator, the completion call or any reply attempt, the one inside the
\* generic except clause included) leaves on_message.
C17_NothingEscapes == \A h \in Handlers : pc[h] # "raised"

\* ------------------------------------------------------------------------
\* C18
\* ------------------------------------------------------------------------
\* C18: a non-empty answer of at most 2000 characters is handed to
\* message.reply unchanged, with no marker added.
C18_AnswerUnchanged ==
    \A h \in Handlers :
        (response[h].kind = "returned" /\ response[h].content # ""
         /\ Len(response[h].content) <= 2000) =>
            /\ Len(replies[h]) >= 1
            /\ replies[h][1].text = response[h].content

\* an answer of exactly 2000 characters was delivered as it is
C18_Witness ==
    \E h \in Handlers :
        /\ Len(response[h].content) = 2000
        /\ pc[h] = "done"
        /\ replies[h] = << Attempt(response[h].content, "delivered") >>

\* ------------------------------------------------------------------------
\* C19
\* ------------------------------------------------------------------------
Delivered(h) == {i \in 1..Len(replies[h]) : replies[h][i].result = "delivered"}

\* C19: an event gets at most one reply delivered and at most two reply
\* attempts; the second attempt is the internal-error reply and is made only
\* after the first attempt raised an exception other than HTTPException.
C19_AtMostOneReply ==
    \A h \in Handlers :
        /\ Len(replies[h]) <= 2
        /\ Cardinality(Delivered(h)) <= 1
        /\ Len(replies[h]) = 2 =>
               /\ replies[h][1].result = "Exception"
               /\ replies[h][2].text = InternalErrorReply

\* the presence reply raised and the internal-error reply was delivered
C19_Witness ==
    \E h \in Handlers :
        /\ pc[h] = "done"
        /\ path[h] = "presence"
        /\ Len(replies[h]) = 2
        /\ replies[h][1].result = "Exception"
        /\ replies[h][2] = Attempt(InternalErrorReply, "delivered")

====
